---- MODULE Spec2Model ----
(***************************************************************************)
(* A model of crt_generator.py: the CRT "Connecting..." standby generator. *)
(*                                                                         *)
(* Four specifications share the variables below:                         *)
(*   Spec        main/render_sequence: the per-frame pipeline, the frame   *)
(*               list and the call of the encoder.  A frame is carried as   *)
(*               its size and the stages it went through; the size a       *)
(*               stage returns is worked out from the sizes and array      *)
(*               shapes of the library calls it makes.                     *)
(*   SpecStages  the stages that are exact pixel arithmetic, on small       *)
(*               frames of pixels: apply_scanlines, chroma_shift,          *)
(*               barrel_distort and tearing.                               *)
(*   SpecBands   the random draws of tearing on frames of any height.      *)
(*   SpecSizes   Spec and SpecStages side by side: the size of the frame,  *)
(*               along a run of main and across each stage call.          *)
(*                                                                         *)
(* Conventions.  A frame of pixels is a sequence of h rows, each a         *)
(* sequence of w pixels <<r, g, b>> with channels in 0..255; row y of the  *)
(* source (0-based) is element y+1.  Python floats that are parameters     *)
(* are given in hundredths (opacity 0.22 is 22, k 0.08 is 8, TEAR_PROB 0.5 *)
(* is 50).  A float32 is <<m, e>>, standing for m * 2^e, with              *)
(* 2^23 <= m < 2^24, or <<0, 0>> for zero.                                 *)
(***************************************************************************)
EXTENDS Integers, Sequences, FiniteSets

\* ---------------------------------------------------------------- bounds

\* Largest width and height of the frames of pixels of SpecStages.
MaxW == 3
MaxH == 6
\* Largest height, above the fixed ones, of the frames of SpecBands.
MaxBandH == 8

\* ------------------------------------------------------ program constants

FRAMES == 48
FPS == 12
SCANLINE_OPACITY == 22
TEAR_PROB == 50
TEAR_SHIFT_PX == 16
CHROMA_SHIFT_PX == 1
CURVATURE_K == 8
TEAR_BANDS == <<1, 3>>
KICK_BANDS == <<2, 4>>
CHROMA_GLITCH_FRAMES == {0, 1}
BANNER_SIZE == <<1200, 480>>
OVERLAY_SIZE == <<1920, 1080>>
\* int(1000 / FPS): the float quotient truncated towards zero.
DURATION_MS == 1000 \div FPS

\* ------------------------------------------------------- float32 arithmetic

Pow2(n) == 2 ^ n

F32Zero == <<0, 0>>

RECURSIVE F32Norm(_, _)
\* m * 2^e with 0 < m < 2^24, the mantissa shifted up to 24 bits (exact).
F32Norm(m, e) == IF m >= Pow2(23) THEN <<m, e>> ELSE F32Norm(2 * m, e - 1)

\* np.float32 of an integer 0 <= v < 2^24 (exact).
F32FromInt(v) == IF v = 0 THEN F32Zero ELSE F32Norm(v, 0)

\* Round to nearest, ties to even: mant is the 24-bit mantissa, guard the
\* next bit, sticky whether anything nonzero follows.
F32Round(mant, guard, sticky, e) ==
    LET up == guard = 1 /\ (sticky \/ mant % 2 = 1)
        m1 == IF up THEN mant + 1 ELSE mant
    IN  IF m1 = Pow2(24) THEN <<Pow2(23), e + 1>> ELSE <<m1, e>>

RECURSIVE LongDiv(_, _, _, _)
\* n more bits of the quotient of r / d (r < d), after the bits q.
LongDiv(r, d, n, q) ==
    IF n = 0 THEN <<q, r>>
    ELSE IF 2 * r >= d THEN LongDiv(2 * r - d, d, n - 1, 2 * q + 1)
         ELSE LongDiv(2 * r, d, n - 1, 2 * q)

\* a / b in float32 (b nonzero), correctly rounded.
F32Div(a, b) ==
    IF a[1] = 0 THEN F32Zero
    ELSE LET qr == LongDiv(a[1] % b[1], b[1], 25, a[1] \div b[1])
             q  == qr[1]
             e  == a[2] - b[2] - 25
         IN  IF q >= Pow2(25)
             THEN F32Round(q \div 4, (q \div 2) % 2, (q % 2 = 1) \/ qr[2] # 0, e + 2)
             ELSE F32Round(q \div 2, q % 2, qr[2] # 0, e + 1)

\* a * b in float32, correctly rounded; the 48-bit product is built from
\* 12-bit halves.
F32Mul(a, b) ==
    IF a[1] = 0 \/ b[1] = 0 THEN F32Zero
    ELSE LET ah == a[1] \div 4096
             al == a[1] % 4096
             bh == b[1] \div 4096
             bl == b[1] % 4096
             mid == ah * bl + al * bh
             lowsum == al * bl + (mid % 4096) * 4096
             lo == lowsum % Pow2(24)
             hi == ah * bh + (mid \div 4096) + (lowsum \div Pow2(24))
             e == a[2] + b[2]
         IN  IF hi >= Pow2(23)
             THEN F32Round(hi, lo \div Pow2(23), lo % Pow2(23) # 0, e + 24)
             ELSE F32Round(2 * hi + (lo \div Pow2(23)), (lo \div Pow2(22)) % 2,
                           lo % Pow2(22) # 0, e + 23)

\* a > 1.0
F32GtOne(a) == a[1] # 0 /\ (a[2] > -23 \/ (a[2] = -23 /\ a[1] > Pow2(23)))

\* np.clip(a, 0, 1) of a nonnegative float32.
F32Clip01(a) == IF F32GtOne(a) THEN <<Pow2(23), -23>> ELSE a

\* astype(np.uint8) of a float32 in [0, 256): truncation towards zero.
F32ToUint8(a) ==
    IF a[1] = 0 THEN 0
    ELSE IF a[2] >= 0 THEN a[1] * Pow2(a[2])
    ELSE IF -a[2] > 24 THEN 0
    ELSE a[1] \div Pow2(-a[2])

\* ------------------------------------------------------- frames of pixels

Width(img) == Len(img[1])
Height(img) == Len(img)
\* img.size
SizeOf(img) == <<Width(img), Height(img)>>

\* The frames given to the stages: Ramp has pairwise distinct pixels (for
\* w * h <= 36), Uniform has every channel of every pixel equal to v.
Ramp(w, h) ==
    [y \in 1..h |-> [x \in 1..w |->
        LET n == (y - 1) * w + (x - 1)
        IN  <<7 * n, 100 + 3 * n, 255 - 5 * n>>]]
Uniform(w, h, v) == [y \in 1..h |-> [x \in 1..w |-> <<v, v, v>>]]
\* Levels(j) holds the channel values 6j..6j+5 (at most 255) in its even row
\* and again in its odd row: over j in 0..42, every value 0..255.
Levels(j) ==
    [y \in 1..2 |-> [x \in 1..2 |-> [c \in 1..3 |->
        LET v == 6 * j + 3 * (x - 1) + (c - 1)
        IN  IF v > 255 THEN 255 ELSE v]]]
UniformVals == {0, 1, 50, 100, 200, 255}
UniformSizes == {<<1, 2>>, <<2, 4>>, <<3, 3>>}
Images ==
    {Ramp(w, h) : w \in 1..MaxW, h \in 1..MaxH}
    \cup {Uniform(sz[1], sz[2], v) : sz \in UniformSizes, v \in UniformVals}
    \cup {Levels(j) : j \in 0..42}

\* ------------------------------------------------------- apply_scanlines

\* mask[y]: ones, with 1.0 - opacity (stored as float32) on the odd rows.
ScanMaskEvenRows(y, opacity) ==
    IF y % 2 = 0 THEN F32Div(F32FromInt(100 - opacity), F32FromInt(100))
    ELSE F32FromInt(1)
ScanMask(y, opacity) ==
    IF y % 2 = 1 THEN F32Div(F32FromInt(100 - opacity), F32FromInt(100))
    ELSE F32FromInt(1)

\* One channel v of a pixel of row y (0-based).
ScanChannel(v, y, opacity) ==
    LET arr == F32Div(F32FromInt(v), F32FromInt(255))
        scaled == F32Clip01(F32Mul(arr, ScanMask(y, opacity)))
    IN  F32ToUint8(F32Mul(scaled, F32FromInt(255)))

apply_scanlines(img, opacity) ==
    [y \in 1..Height(img) |-> [x \in 1..Width(img) |->
        [c \in 1..3 |-> ScanChannel(img[y][x][c], y - 1, opacity)]]]

\* ------------------------------------------------------------ chroma_shift

\* C's remainder: the sign of the dividend.
CRem(a, n) == IF a >= 0 THEN a % n ELSE -((-a) % n)

\* ImagingOffset's source offset for a call offset(image, xoffset, 0).
SourceOffset(xoffset, xsize) ==
    LET x1 == xsize - CRem(xoffset, xsize)
    IN  IF x1 < 0 THEN x1 + xsize ELSE x1

\* ImageChops.offset(image, xoffset, 0): the data wraps around the edges.
ChopsOffset(image, xoffset) ==
    [y \in 1..Height(image) |-> [x \in 1..Width(image) |->
        image[y][((x - 1 + SourceOffset(xoffset, Width(image))) % Width(image)) + 1]]]

\* img.split()[c]: one channel as a frame of its own.
Channel(img, c) == [y \in 1..Height(img) |-> [x \in 1..Width(img) |-> img[y][x][c]]]

\* Image.merge("RGB", (r, g, b))
Merge(r, g, b) ==
    [y \in 1..Height(g) |-> [x \in 1..Width(g) |-> <<r[y][x], g[y][x], b[y][x]>>]]

\* chroma_shift past its guard.
ChromaShifted(img, shift_px) ==
    Merge(ChopsOffset(Channel(img, 1), -shift_px),
          Channel(img, 2),
          ChopsOffset(Channel(img, 3), shift_px))

\* ---------------------------------------------------------- barrel_distort

\* np.rint of the rational n / m (n >= 0, m > 0): nearest, ties to even.
Rint(n, m) ==
    LET q == n \div m
        r == n % m
    IN  IF 2 * r < m THEN q
        ELSE IF 2 * r > m THEN q + 1
        ELSE IF q % 2 = 0 THEN q ELSE q + 1

\* np.clip(v, lo, hi)
Clip(v, lo, hi) == IF v < lo THEN lo ELSE IF v > hi THEN hi ELSE v

\* The source coordinate sampled for destination coordinate p on an axis of
\* length n (the other axis: q of length m), with k in hundredths.  With
\* D = n-1, E = m-1, X = 2p-D, Y = 2q-E: the normalized offsets are X/D and
\* Y/E, factor = F/G with G = 100 D^2 E^2 and F = G + k (X^2 E^2 + Y^2 D^2),
\* and the source coordinate (X/D) / factor * D/2 + D/2 = (X G + D F) / (2 F).
BarrelSource(p, n, q, m, k) ==
    LET D == n - 1
        E == m - 1
        X == 2 * p - D
        Y == 2 * q - E
        G == 100 * D * D * E * E
        F == G + k * (X * X * E * E + Y * Y * D * D)
    IN  Clip(Rint(X * G + D * F, 2 * F), 0, n - 1)

\* barrel_distort past its guard: out[:] = src[ys_nn, xs_nn].
BarrelResampled(img, k) ==
    LET w == Width(img)
        h == Height(img)
    IN  [y \in 1..h |-> [x \in 1..w |->
            img[BarrelSource(y - 1, h, x - 1, w, k) + 1]
               [BarrelSource(x - 1, w, y - 1, h, k) + 1]]]

\* ----------------------------------------------------------------- tearing

\* random.randint(a, b): the values it may return; none, a ValueError.
RandInt(a, b) == a..b

\* int(h * 0.06)
SixPercent(h) == (h * 6) \div 100

\* max(6, int(h * 0.06)): the largest band height drawn.
ThMax(h) == IF SixPercent(h) > 6 THEN SixPercent(h) ELSE 6

\* h - th: the largest top row drawn for a band of height th.
TyMaxWholeFrame(h, th) == h
TyMax(h, th) == h - th

\* base.crop((0, ty, w, ty + th))
Crop(image, ty, th) == SubSeq(image, ty + 1, ty + th)

\* base.paste(band, (0, ty)): base with the rows of band from row ty on.
Paste(image, band, ty) ==
    [y \in 1..Height(image) |->
        IF y - 1 >= ty /\ y - 1 < ty + Height(band) THEN band[y - ty] ELSE image[y]]

\* One pass of the loop body of tearing on base, with its three draws.
TornBandPastedAtTop(image, th, ty, shift) ==
    Paste(image, ChopsOffset(Crop(image, ty, th), shift), 0)
TornBand(image, th, ty, shift) ==
    Paste(image, ChopsOffset(Crop(image, ty, th), shift), ty)

\* img.copy(): <<the heap with the new object, its reference>>.
CopyImage(objs, ref) == <<Append(objs, objs[ref]), Len(objs) + 1>>

\* --------------------------------------------------------------- variables

VARIABLES
    \* render_sequence and main
    pc, job, i, frame, frames, outputs, tear_prob, curvature_k, u,
    \* one call of a stage on a frame of pixels
    heap, img0, call, baseRef, outRef, spc, nbands, kband, rowShift, cover, draws,
    \* the draws of tearing
    bcfg, bpc, bn, bk, bth, bty, bshift

rvars == <<pc, job, i, frame, frames, outputs, tear_prob, curvature_k, u>>
svars == <<heap, img0, call, baseRef, outRef, spc, nbands, kband, rowShift, cover, draws>>
bvars == <<bcfg, bpc, bn, bk, bth, bty, bshift>>
vars == <<rvars, svars, bvars>>

\* The variables of a specification that does not use them.
RenderIdle ==
    /\ pc = "off" /\ job = 0 /\ i = 0 /\ frame = <<>> /\ frames = <<>>
    /\ outputs = <<>> /\ tear_prob = 0 /\ curvature_k = 0 /\ u = -1
StagesIdle ==
    /\ heap = <<>> /\ img0 = <<>> /\ call = <<>> /\ baseRef = 0 /\ outRef = 0
    /\ spc = "off" /\ nbands = 0 /\ kband = 0 /\ rowShift = <<>> /\ cover = <<>>
    /\ draws = 0
BandsIdle ==
    /\ bcfg = <<>> /\ bpc = "off" /\ bn = 0 /\ bk = 0 /\ bth = 0 /\ bty = 0
    /\ bshift = 0

\* ------------------------------------------------ SpecStages: stage calls

\* The argument img is object 1 of the heap; img0 keeps its pixels as given.
img == heap[1]

Opacities == {0, 20, SCANLINE_OPACITY, 50, 100}
ChromaShifts == {-1, 0, CHROMA_SHIFT_PX, 2}
Curvatures == {-CURVATURE_K, 0, CURVATURE_K, 100}
\* <<max_shift, bands>>.  Shifts up to 2 either way reach every rotation of
\* a row of up to 4 pixels; the shifts of the source are those of SpecBands.
TearArgs ==
    {<<-1, TEAR_BANDS>>, <<0, KICK_BANDS>>, <<1, TEAR_BANDS>>, <<2, KICK_BANDS>>}

InitStages ==
    /\ RenderIdle /\ BandsIdle
    /\ img0 \in Images
    /\ heap = <<img0>>
    /\ call = <<>> /\ baseRef = 0 /\ outRef = 0 /\ spc = "idle"
    /\ nbands = 0 /\ kband = 0 /\ rowShift = <<>> /\ cover = <<>> /\ draws = 0

\* A stage that returns a new frame.
ReturnNew(name, arg, result) ==
    /\ call' = <<name, arg>>
    /\ heap' = Append(heap, result)
    /\ outRef' = Len(heap) + 1
    /\ spc' = "returned"
    /\ UNCHANGED <<img0, baseRef, nbands, kband, rowShift, cover, draws>>

\* A stage that returns its argument (return img).
ReturnImg(name, arg) ==
    /\ call' = <<name, arg>>
    /\ outRef' = 1
    /\ spc' = "returned"
    /\ UNCHANGED <<heap, img0, baseRef, nbands, kband, rowShift, cover, draws>>

CallScanlines ==
    /\ spc = "idle"
    /\ \E opacity \in Opacities :
          ReturnNew("apply_scanlines", opacity, apply_scanlines(img, opacity))
    /\ UNCHANGED <<rvars, bvars>>

ChromaGuard(shift_px) == shift_px <= 0

CallChromaShift ==
    /\ spc = "idle"
    /\ \E shift_px \in ChromaShifts :
          IF ChromaGuard(shift_px)
          THEN ReturnImg("chroma_shift", shift_px)
          ELSE ReturnNew("chroma_shift", shift_px, ChromaShifted(img, shift_px))
    /\ UNCHANGED <<rvars, bvars>>

BarrelGuard(k) == k <= 0

\* With w = 1 or h = 1, cx or cy is 0: (xs - cx) / cx or (ys - cy) / cy is
\* 0/0 = nan, so r2, factor, xd and yd are nan for every pixel, np.rint and
\* np.clip keep nan, and both index arrays are nan.astype(np.int32).
BarrelHasNan(image) == Width(image) < 2 \/ Height(image) < 2

\* nan.astype(np.int32) is undefined in C: the values builds give (INT_MIN
\* on x86-64, 0 on aarch64).
NanCasts == {-2147483647 - 1, 0}

\* src[ys_nn, xs_nn] with every index equal to c: numpy takes c in -n..n-1
\* (a negative one counted from the end) and raises IndexError otherwise.
IndexInRange(c, n) == -n <= c /\ c < n
WrappedIndex(c, n) == IF c < 0 THEN c + n ELSE c

\* out[:] = src[ys_nn, xs_nn] with every index equal to c, in range.
BarrelNanFilled(image, c) ==
    [y \in 1..Height(image) |-> [x \in 1..Width(image) |->
        image[WrappedIndex(c, Height(image)) + 1][WrappedIndex(c, Width(image)) + 1]]]

\* A stage that raises.
Raise(name, arg) ==
    /\ call' = <<name, arg>>
    /\ spc' = "raised"
    /\ UNCHANGED <<heap, img0, baseRef, outRef, nbands, kband, rowShift, cover, draws>>

CallBarrelDistort ==
    /\ spc = "idle"
    /\ \E k \in Curvatures :
          IF BarrelGuard(k)
          THEN ReturnImg("barrel_distort", k)
          ELSE IF BarrelHasNan(img)
          THEN \E c \in NanCasts :
                  IF IndexInRange(c, Height(img)) /\ IndexInRange(c, Width(img))
                  THEN ReturnNew("barrel_distort", k, BarrelNanFilled(img, c))
                  ELSE Raise("barrel_distort", k)
          ELSE ReturnNew("barrel_distort", k, BarrelResampled(img, k))
    /\ UNCHANGED <<rvars, bvars>>

TearGuardStrict(max_shift) == max_shift < 0
TearGuard(max_shift) == max_shift <= 0

\* tearing up to the first pass of its loop: the guard, the copy, the draw
\* of the number of bands.
TearBegin ==
    /\ spc = "idle"
    /\ \E arg \in TearArgs :
          IF TearGuard(arg[1])
          THEN ReturnImg("tearing", arg)
          ELSE LET cp == CopyImage(heap, 1)
               IN  /\ call' = <<"tearing", arg>>
                   /\ heap' = cp[1]
                   /\ baseRef' = cp[2]
                   /\ nbands' \in RandInt(arg[2][1], arg[2][2])
                   /\ kband' = 0
                   /\ rowShift' = [y \in 1..Height(img) |-> 0]
                   /\ cover' = [y \in 1..Height(img) |-> 0]
                   /\ draws' = draws + 1
                   /\ spc' = "tearing"
                   /\ UNCHANGED <<img0, outRef>>
    /\ UNCHANGED <<rvars, bvars>>

\* One pass of the loop.  rowShift and cover are history: per row, the sum of
\* the shifts of the bands that covered it (modulo the width), and how
\* many did.
TearBand ==
    /\ spc = "tearing" /\ kband < nbands
    /\ LET h == Height(heap[baseRef])
           w == Width(heap[baseRef])
       IN  \E th \in RandInt(4, ThMax(h)) :
              IF RandInt(0, TyMax(h, th)) = {}
              THEN \* random.randint(0, h - th) raises ValueError
                   /\ spc' = "raised"
                   /\ draws' = draws + 1
                   /\ UNCHANGED <<heap, img0, call, baseRef, outRef, nbands, kband,
                                  rowShift, cover>>
              ELSE \E ty \in RandInt(0, TyMax(h, th)) :
                   \E shift \in RandInt(-call[2][1], call[2][1]) :
                      /\ heap' = [heap EXCEPT ![baseRef] = TornBand(@, th, ty, shift)]
                      /\ kband' = kband + 1
                      /\ rowShift' = [y \in 1..h |->
                            IF y - 1 >= ty /\ y - 1 < ty + th
                            THEN (rowShift[y] + shift) % w ELSE rowShift[y]]
                      /\ cover' = [y \in 1..h |->
                            IF y - 1 >= ty /\ y - 1 < ty + th
                            THEN cover[y] + 1 ELSE cover[y]]
                      /\ draws' = draws + 3
                      /\ UNCHANGED <<img0, call, baseRef, outRef, nbands, spc>>
    /\ UNCHANGED <<rvars, bvars>>

\* return base
TearReturn ==
    /\ spc = "tearing" /\ kband = nbands
    /\ outRef' = baseRef
    /\ spc' = "returned"
    /\ UNCHANGED <<heap, img0, call, baseRef, nbands, kband, rowShift, cover, draws>>
    /\ UNCHANGED <<rvars, bvars>>

NextStages ==
    \/ CallScanlines
    \/ CallChromaShift
    \/ CallBarrelDistort
    \/ TearBegin
    \/ TearBand
    \/ TearReturn

SpecStages == InitStages /\ [][NextStages]_vars

\* ------------------------------------------- SpecBands: the draws of tearing

\* <<h, max_shift, bands>>: the frame height and the arguments of tearing.
BandArgs ==
    TearArgs \cup {<<TEAR_SHIFT_PX \div 2, TEAR_BANDS>>, <<TEAR_SHIFT_PX, KICK_BANDS>>}
BandInputs ==
    {<<h, arg[1], arg[2]>> : h \in 1..MaxBandH, arg \in BandArgs}
    \cup {<<64, TEAR_SHIFT_PX \div 2, TEAR_BANDS>>,
          <<120, TEAR_SHIFT_PX \div 2, TEAR_BANDS>>,
          <<120, TEAR_SHIFT_PX, KICK_BANDS>>,
          <<BANNER_SIZE[2], TEAR_SHIFT_PX \div 2, TEAR_BANDS>>}

InitBands ==
    /\ RenderIdle /\ StagesIdle
    /\ bcfg \in BandInputs
    /\ bpc = "start" /\ bn = 0 /\ bk = 0 /\ bth = 0 /\ bty = 0 /\ bshift = 0

\* if max_shift <= 0: return img; else the draw of the number of bands.
BandsBegin ==
    /\ bpc = "start"
    /\ IF TearGuard(bcfg[2])
       THEN bpc' = "returned" /\ bn' = bn
       ELSE bpc' = "th" /\ bn' \in RandInt(bcfg[3][1], bcfg[3][2])
    /\ UNCHANGED <<bcfg, bk, bth, bty, bshift>>
    /\ UNCHANGED <<rvars, svars>>

\* th = random.randint(4, max(6, int(h*0.06)))
BandsDrawTh ==
    /\ bpc = "th" /\ bk < bn
    /\ bth' \in RandInt(4, ThMax(bcfg[1]))
    /\ bpc' = "ty"
    /\ UNCHANGED <<bcfg, bn, bk, bty, bshift>>
    /\ UNCHANGED <<rvars, svars>>

\* ty = random.randint(0, h-th): a ValueError when h - th < 0.
BandsDrawTy ==
    /\ bpc = "ty"
    /\ IF RandInt(0, TyMax(bcfg[1], bth)) = {}
       THEN bpc' = "raised" /\ bty' = bty
       ELSE bpc' = "shift" /\ bty' \in RandInt(0, TyMax(bcfg[1], bth))
    /\ UNCHANGED <<bcfg, bn, bk, bth, bshift>>
    /\ UNCHANGED <<rvars, svars>>

\* shift = random.randint(-max_shift, max_shift)
BandsDrawShift ==
    /\ bpc = "shift"
    /\ bshift' \in RandInt(-bcfg[2], bcfg[2])
    /\ bpc' = "paste"
    /\ UNCHANGED <<bcfg, bn, bk, bth, bty>>
    /\ UNCHANGED <<rvars, svars>>

\* crop, offset, paste; the next pass draws th, ty and shift anew.
BandsPaste ==
    /\ bpc = "paste"
    /\ bk' = bk + 1
    /\ bth' = 0 /\ bty' = 0 /\ bshift' = 0
    /\ bpc' = "th"
    /\ UNCHANGED <<bcfg, bn>>
    /\ UNCHANGED <<rvars, svars>>

\* return base
BandsReturn ==
    /\ bpc = "th" /\ bk = bn
    /\ bpc' = "returned"
    /\ UNCHANGED <<bcfg, bn, bk, bth, bty, bshift>>
    /\ UNCHANGED <<rvars, svars>>

NextBands ==
    \/ BandsBegin
    \/ BandsDrawTh
    \/ BandsDrawTy
    \/ BandsDrawShift
    \/ BandsPaste
    \/ BandsReturn

SpecBands == InitBands /\ [][NextBands]_vars

\* ------------------------------------- Spec: render_sequence and main

\* What stands for the value of a call that raises instead of returning.
NoValue == <<>>

\* np.array(img).shape for an RGB image of the given size: (h, w, 3).
ArrayShape(size) ==
    IF size = NoValue THEN NoValue ELSE <<size[2], size[1], 3>>

\* Image.fromarray(arr).size for arr of shape (rows, columns, 3):
\* (columns, rows).
FromArraySizeTransposed(shape) ==
    IF shape = NoValue THEN NoValue ELSE <<shape[1], shape[2]>>
FromArraySize(shape) ==
    IF shape = NoValue THEN NoValue ELSE <<shape[2], shape[1]>>

\* The shape of an elementwise operation on arrays of shapes a and b of one
\* rank: per axis the two lengths are equal or one of them is 1, and numpy
\* raises ValueError otherwise.
Broadcast(a, b) ==
    IF a = NoValue \/ b = NoValue \/ Len(a) # Len(b) THEN NoValue
    ELSE IF \A d \in 1..Len(a) : a[d] = b[d] \/ a[d] = 1 \/ b[d] = 1
    THEN [d \in 1..Len(a) |-> IF a[d] = 1 THEN b[d] ELSE a[d]]
    ELSE NoValue

\* a *= b, a[:] = b, a[..., c] = b: b is broadcast to the shape of a, which
\* a keeps; ValueError when the broadcast has another shape.
InPlace(a, b) == IF a # NoValue /\ Broadcast(a, b) = a THEN a ELSE NoValue

\* a[:, None, :] (at = 2) and a[..., None] (at = rank + 1): an axis of
\* length 1 put in at the given place.
NewAxis(shape, at) ==
    IF shape = NoValue THEN NoValue
    ELSE SubSeq(shape, 1, at - 1) \o <<1>> \o SubSeq(shape, at, Len(shape))

\* y, x = np.ogrid[:h, :w]: the shapes <<(h, 1), (1, w)>>.
Ogrid(h, w) == << <<h, 1>>, <<1, w>> >>

\* ys, xs = np.indices((h, w)): two arrays of shape (h, w).
Indices(h, w) == << <<h, w>>, <<h, w>> >>

\* src[ys, xs] with index arrays on the first two axes: the broadcast of
\* the index shapes, then the axes of src left.
FancyIndex(src, ys, xs) ==
    IF src = NoValue \/ Broadcast(ys, xs) = NoValue THEN NoValue
    ELSE Broadcast(ys, xs) \o SubSeq(src, 3, Len(src))

Min(a, b) == IF a < b THEN a ELSE b

\* ImageChops.add(image1, image2).size: the result is created with the
\* lesser width and the lesser height of the two.
ChopsAddSize(a, b) ==
    IF a = NoValue \/ b = NoValue THEN NoValue
    ELSE <<Min(a[1], b[1]), Min(a[2], b[2])>>

\* image.filter(ImageFilter.GaussianBlur(radius)).size
FilterSize(a) == a

\* Image.blend(im1, im2, alpha).size; ValueError ("images do not match")
\* on two sizes.
BlendSize(a, b) == IF a = b THEN a ELSE NoValue

\* The sizes of img.split(): the three bands.
SplitSizes(a) == <<a, a, a>>

\* ImageChops.offset(image, xoffset, 0).size
OffsetSize(a) == a

\* Image.merge("RGB", bands).size; ValueError ("size mismatch") when a band
\* has not the size of the first.
MergeSize(bands) ==
    IF \A n \in 1..Len(bands) : bands[n] = bands[1] THEN bands[1] ELSE NoValue

\* img.copy().size
CopySize(a) == a

\* image.crop((left, upper, right, lower)).size
CropSize(box) == <<box[3] - box[1], box[4] - box[2]>>

\* The size of base after base.paste(band, at): the pixels of band falling
\* inside base are written into it.
PasteSize(base, band, at) == base

\* The size of the frame each stage returns, from the size of its argument;
\* NoValue when the stage raises.
BackgroundSize(size) ==
    LET w == size[1]
        h == size[2]
        base == <<w, h>>
        yx == Ogrid(h, w)
        \* r = np.sqrt((x-cx)**2 + (y-cy)**2), and mask from r
        r == Broadcast(yx[2], yx[1])
        \* arr = np.zeros((h, w, 3)); arr[..., c] = (tint[c]/255.0) * mask
        arr == IF InPlace(<<h, w>>, r) = NoValue THEN NoValue ELSE <<h, w, 3>>
        glow == FromArraySize(arr)
    IN  ChopsAddSize(base, glow)

BloomSize(size) == BlendSize(size, FilterSize(size))

ChromaSize(size, shift_px) ==
    IF ChromaGuard(shift_px) THEN size
    ELSE LET rgb == SplitSizes(size)
         IN  MergeSize(<<OffsetSize(rgb[1]), rgb[2], OffsetSize(rgb[3])>>)

\* The sizes tearing may return: that of base after a pass of the loop, for
\* every th and ty the pass may draw, and NoValue for a th above h
\* (random.randint(0, h - th) raises).
TearingSizes(size, max_shift) ==
    IF size = NoValue THEN {NoValue}
    ELSE IF TearGuard(max_shift) THEN {size}
    ELSE LET w == size[1]
             h == size[2]
             base == CopySize(size)
             ths == RandInt(4, ThMax(h))
         IN  {NoValue : th \in {t \in ths : RandInt(0, TyMax(h, t)) = {}}}
             \cup UNION {{PasteSize(base, OffsetSize(CropSize(<<0, ty, w, ty + th>>)),
                                    <<0, ty>>) : ty \in RandInt(0, TyMax(h, th))} :
                            th \in ths}

ScanlinesSize(size) ==
    LET h == size[2]
        arr == ArrayShape(size)
        mask == <<h, 1>>
    IN  FromArraySize(InPlace(arr, NewAxis(mask, 2)))

VignetteSize(size) ==
    LET w == size[1]
        h == size[2]
        yx == Ogrid(h, w)
        r == Broadcast(yx[2], yx[1])
        arr == ArrayShape(size)
    IN  FromArraySize(InPlace(arr, NewAxis(r, 3)))

NoiseSize(size) ==
    LET arr == ArrayShape(size)
        noise == arr
    IN  FromArraySize(Broadcast(arr, noise))

\* arr * factor with factor a scalar
FlickerSize(size) == FromArraySize(ArrayShape(size))

\* The sizes barrel_distort may return; on a frame 1 wide or 1 high the
\* index arrays hold one undefined value (see NanCasts).
BarrelSizes(size, k) ==
    IF size = NoValue THEN {NoValue}
    ELSE IF BarrelGuard(k) THEN {size}
    ELSE LET w == size[1]
             h == size[2]
             src == ArrayShape(size)
             out == src
             ysxs == Indices(h, w)
             \* r2 = x*x + y*y; xd = x / factor; yd = y / factor
             r2 == Broadcast(ysxs[2], ysxs[1])
             xs_nn == Broadcast(ysxs[2], r2)
             ys_nn == Broadcast(ysxs[1], r2)
             done == FromArraySize(InPlace(out, FancyIndex(src, ys_nn, xs_nn)))
         IN  IF w < 2 \/ h < 2
             THEN {IF IndexInRange(c, h) /\ IndexInRange(c, w) THEN done ELSE NoValue :
                      c \in NanCasts}
             ELSE {done}

\* The two calls of main.
Jobs ==
    <<[path |-> "connecting_banner_1200x480.gif", size |-> BANNER_SIZE, font_px |-> 52],
      [path |-> "connecting_overlay_1920x1080.gif", size |-> OVERLAY_SIZE, font_px |-> 84]>>

\* range(FRAMES)
LoopCountShort == FRAMES - 1
LoopCount == FRAMES

\* i in CHROMA_GLITCH_FRAMES
IsKickFirstOnly(n) == n = 0
IsKick(n) == n \in CHROMA_GLITCH_FRAMES

\* random.random() < TEAR_PROB, in hundredths
TearDrawOrEqual(draw, prob) == draw <= prob
TearDraw(draw, prob) == draw < prob

\* The values of random.random() told apart, in hundredths.
Draws == {0, 25, 49, 50, 75, 99}

\* The statements of the loop body, in the order of the source: the stage
\* that follows each.
NextPcNoiseFirst(p) ==
    CASE p = "background" -> "text"
      [] p = "text" -> "bloom"
      [] p = "bloom" -> "glitch"
      [] p = "glitch" -> "scanlines"
      [] p = "scanlines" -> "noise"
      [] p = "noise" -> "vignette"
      [] p = "vignette" -> "flicker"
      [] p = "flicker" -> "barrel"
      [] p = "barrel" -> "append"
NextPc(p) ==
    CASE p = "background" -> "text"
      [] p = "text" -> "bloom"
      [] p = "bloom" -> "glitch"
      [] p = "glitch" -> "scanlines"
      [] p = "scanlines" -> "vignette"
      [] p = "vignette" -> "noise"
      [] p = "noise" -> "flicker"
      [] p = "flicker" -> "barrel"
      [] p = "barrel" -> "append"

\* The configuration is the source's, or the one with the tear probability
\* or the curvature set to 0 ("set 0.0 to disable").
Init ==
    /\ StagesIdle /\ BandsIdle
    /\ pc = "main" /\ job = 1 /\ i = 0 /\ frame = <<>> /\ frames = <<>>
    /\ outputs = <<>> /\ u = -1
    /\ tear_prob \in {TEAR_PROB, 0}
    /\ curvature_k \in {CURVATURE_K, 0}

size == Jobs[job].size

\* main: render_sequence(path, size, font_px) up to its loop.
CallRender ==
    /\ pc = "main" /\ job <= Len(Jobs)
    /\ frames' = <<>>
    /\ i' = 0
    /\ pc' = "loop"
    /\ UNCHANGED <<job, frame, outputs, tear_prob, curvature_k, u>>
    /\ UNCHANGED <<svars, bvars>>

\* for i in range(FRAMES): the next index, or the end of the loop.
LoopNext ==
    /\ pc = "loop"
    /\ pc' = IF i < LoopCount THEN "background" ELSE "save"
    /\ UNCHANGED <<job, i, frame, frames, outputs, tear_prob, curvature_k, u>>
    /\ UNCHANGED <<svars, bvars>>

\* A stage of frame i, returning a frame of one of the sizes given: the
\* frame it leaves and the next statement; or, raising (NoValue), the end
\* of the run, no handler being installed.
Stage(name, sizes, newFx) ==
    /\ \E newSize \in sizes :
          IF newSize = NoValue
          THEN frame' = frame /\ pc' = "raised"
          ELSE /\ frame' = [frame EXCEPT !.size = newSize,
                                         !.stages = Append(@, name),
                                         !.fx = @ \o newFx]
               /\ pc' = NextPc(pc)
    /\ UNCHANGED <<job, i, frames, outputs, tear_prob, curvature_k>>

Background ==
    /\ pc = "background"
    /\ IF BackgroundSize(size) = NoValue
       THEN frame' = frame /\ pc' = "raised"
       ELSE /\ frame' = [index |-> i, size |-> BackgroundSize(size),
                         stages |-> <<"crt_background">>, fx |-> <<>>]
            /\ pc' = NextPc(pc)
    /\ u' = -1
    /\ UNCHANGED <<job, i, frames, outputs, tear_prob, curvature_k>>
    /\ UNCHANGED <<svars, bvars>>

DrawText ==
    /\ pc = "text"
    /\ Stage("draw_text", {frame.size}, <<>>)
    /\ UNCHANGED <<u, svars, bvars>>

Bloom ==
    /\ pc = "bloom"
    /\ Stage("bloom", {BloomSize(frame.size)}, <<>>)
    /\ UNCHANGED <<u, svars, bvars>>

\* The effect of a call of chroma_shift, of tearing: none when its guard
\* returns the argument.
ChromaFx(shift_px) ==
    IF ChromaGuard(shift_px) THEN <<>> ELSE << <<"chroma_shift", shift_px>> >>
TearingFx(max_shift, bands) ==
    IF TearGuard(max_shift) THEN <<>> ELSE << <<"tearing", max_shift, bands>> >>

\* if i in CHROMA_GLITCH_FRAMES: chroma_shift, then tearing
GlitchKick ==
    /\ pc = "glitch" /\ IsKick(i)
    /\ Stage("glitch",
             TearingSizes(ChromaSize(frame.size, CHROMA_SHIFT_PX), TEAR_SHIFT_PX),
             ChromaFx(CHROMA_SHIFT_PX) \o TearingFx(TEAR_SHIFT_PX, KICK_BANDS))
    /\ UNCHANGED <<u, svars, bvars>>

\* else: if random.random() < TEAR_PROB: tearing
ProbTear ==
    /\ pc = "glitch" /\ ~IsKick(i)
    /\ \E draw \in Draws :
          /\ u' = draw
          /\ IF TearDraw(draw, tear_prob)
             THEN Stage("glitch", TearingSizes(frame.size, TEAR_SHIFT_PX \div 2),
                        TearingFx(TEAR_SHIFT_PX \div 2, TEAR_BANDS))
             ELSE Stage("glitch", {frame.size}, <<>>)
    /\ UNCHANGED <<svars, bvars>>

Scanlines ==
    /\ pc = "scanlines"
    /\ Stage("apply_scanlines", {ScanlinesSize(frame.size)}, <<>>)
    /\ UNCHANGED <<u, svars, bvars>>

Vignette ==
    /\ pc = "vignette"
    /\ Stage("vignette", {VignetteSize(frame.size)}, <<>>)
    /\ UNCHANGED <<u, svars, bvars>>

Noise ==
    /\ pc = "noise"
    /\ Stage("add_noise", {NoiseSize(frame.size)}, <<>>)
    /\ UNCHANGED <<u, svars, bvars>>

Flicker ==
    /\ pc = "flicker"
    /\ Stage("flicker", {FlickerSize(frame.size)}, <<>>)
    /\ UNCHANGED <<u, svars, bvars>>

Barrel ==
    /\ pc = "barrel"
    /\ Stage("barrel_distort", BarrelSizes(frame.size, curvature_k),
             IF BarrelGuard(curvature_k) THEN <<>>
             ELSE << <<"barrel_distort", curvature_k>> >>)
    /\ UNCHANGED <<u, svars, bvars>>

\* frames.append(frame)
AppendFrame ==
    /\ pc = "append"
    /\ frames' = Append(frames, [index |-> frame.index, size |-> frame.size])
    /\ i' = i + 1
    /\ pc' = "loop"
    /\ UNCHANGED <<job, frame, outputs, tear_prob, curvature_k, u>>
    /\ UNCHANGED <<svars, bvars>>

\* imageio.mimsave(out_path, [np.array(f) for f in frames],
\*                 duration=DURATION_MS/1000.0, loop=0); duration_ms is the
\* duration passed, in thousandths of a second.
Save ==
    /\ pc = "save"
    /\ outputs' = Append(outputs,
          [path |-> Jobs[job].path, frames |-> frames,
           duration_ms |-> DURATION_MS, loop |-> 0])
    /\ job' = job + 1
    /\ pc' = "main"
    /\ UNCHANGED <<i, frame, frames, tear_prob, curvature_k, u>>
    /\ UNCHANGED <<svars, bvars>>

\* main after its two calls.
MainDone ==
    /\ pc = "main" /\ job > Len(Jobs)
    /\ pc' = "done"
    /\ UNCHANGED <<job, i, frame, frames, outputs, tear_prob, curvature_k, u>>
    /\ UNCHANGED <<svars, bvars>>

Next ==
    \/ CallRender
    \/ LoopNext
    \/ Background
    \/ DrawText
    \/ Bloom
    \/ GlitchKick
    \/ ProbTear
    \/ Scanlines
    \/ Vignette
    \/ Noise
    \/ Flicker
    \/ Barrel
    \/ AppendFrame
    \/ Save
    \/ MainDone

Spec == Init /\ [][Next]_vars

\* ------------------------- SpecSizes: the size of the frame, at both levels

\* A run of main on sizes and shapes, or one call of a stage on a frame of
\* pixels.
InitSizes == Init \/ InitStages
NextSizes == Next \/ NextStages

SpecSizes == InitSizes /\ [][NextSizes]_vars

\* ================================================================= claims

IsPrefix(a, b) == Len(a) <= Len(b) /\ SubSeq(b, 1, Len(a)) = a

\* The pipeline of one frame, as the specification orders it.
StageOrder ==
    <<"crt_background", "draw_text", "bloom", "glitch", "apply_scanlines",
      "vignette", "add_noise", "flicker", "barrel_distort">>

\* The effects recorded on a frame.
HasFx(f, name) == \E k \in 1..Len(f.fx) : f.fx[k][1] = name
GlitchDone(f) == f # <<>> /\ \E k \in 1..Len(f.stages) : f.stages[k] = "glitch"

\* ----------------------------------------------------------------- C1
\* C1: every sequence handed to the encoder has exactly FRAMES (48) frames,
\* the k-th of them the frame of index k-1, whatever the random draws and
\* the branch taken; and the loop is left only with FRAMES frames collected.
C1_SequenceLength ==
    /\ \A n \in 1..Len(outputs) :
          /\ Len(outputs[n].frames) = FRAMES
          /\ \A k \in 1..Len(outputs[n].frames) : outputs[n].frames[k].index = k - 1
    /\ pc = "save" => Len(frames) = FRAMES
    /\ pc \in {"loop", "save"} => \A k \in 1..Len(frames) : frames[k].index = k - 1

C1_Witness ==
    /\ pc = "done" /\ Len(outputs) = 2 /\ tear_prob = TEAR_PROB
    /\ Len(outputs[2].frames) = 48
    /\ outputs[2].frames[48].index = 47
    /\ u = 0

\* ----------------------------------------------------------------- C2
\* C2: once the glitch stage of a frame is done: a frame of index 0 or 1 has
\* had chroma_shift(CHROMA_SHIFT_PX) and then tearing with bands (2, 4) and
\* max shift TEAR_SHIFT_PX, and no probability draw was made for it; any
\* other frame has had no chroma shift, a draw was made, and it has had
\* tearing with bands TEAR_BANDS and max shift TEAR_SHIFT_PX // 2 exactly
\* when the draw was below the tear probability.
C2_KickAndTearBranch ==
    GlitchDone(frame) =>
        IF frame.index \in {0, 1}
        THEN /\ Len(frame.fx) >= 2
             /\ frame.fx[1] = <<"chroma_shift", CHROMA_SHIFT_PX>>
             /\ frame.fx[2] = <<"tearing", TEAR_SHIFT_PX, <<2, 4>> >>
             /\ u = -1
        ELSE /\ ~HasFx(frame, "chroma_shift")
             /\ u \in Draws
             /\ (u < tear_prob) <=>
                   (Len(frame.fx) >= 1
                    /\ frame.fx[1] = <<"tearing", TEAR_SHIFT_PX \div 2, TEAR_BANDS>>)
             /\ (u >= tear_prob) <=> ~HasFx(frame, "tearing")

C2_Witness ==
    /\ pc = "scanlines" /\ frame.index = 1 /\ tear_prob = 0
    /\ HasFx(frame, "chroma_shift") /\ HasFx(frame, "tearing")

\* ----------------------------------------------------------------- C3
\* C3: the stages of a frame run in the one order background, text, bloom,
\* glitch branch, scanlines, vignette, noise, flicker, barrel distortion;
\* the frame is appended only after all nine; and while frame i is being
\* processed exactly the frames 0..i-1 have been appended.
C3_StageOrder ==
    /\ frame # <<>> => IsPrefix(frame.stages, StageOrder)
    /\ pc = "append" => frame.stages = StageOrder
    /\ pc \in {"text", "bloom", "glitch", "scanlines", "vignette", "noise",
               "flicker", "barrel", "append"} =>
          /\ frame.index = i
          /\ Len(frames) = i
          /\ Len(frame.stages) < Len(StageOrder) =>
                StageOrder[Len(frame.stages) + 1] =
                    (CASE pc = "text" -> "draw_text"
                       [] pc = "scanlines" -> "apply_scanlines"
                       [] pc = "noise" -> "add_noise"
                       [] pc = "barrel" -> "barrel_distort"
                       [] OTHER -> pc)
    /\ (pc \in {"loop", "background"} /\ i > 0) =>
          /\ frame.stages = StageOrder
          /\ Len(frames) = frame.index + 1

C3_Witness ==
    /\ pc = "append" /\ frame.index = 1 /\ Len(frames) = 1
    /\ frame.stages = StageOrder

\* ----------------------------------------------------------------- C5
\* C5 as stated: with the tear probability 0 and the curvature 0, no frame
\* of the sequence, those of index 0 and 1 included, has had tearing or
\* chroma shift (or resampling) applied.
C5_Original ==
    (tear_prob = 0 /\ curvature_k = 0 /\ pc = "append") => frame.fx = <<>>

\* C5 as amended: with the tear probability 0 and the curvature 0, every
\* frame of index outside {0, 1} has gone through exactly the stages of
\* StageOrder with no tearing, no chroma shift and no resampling, so that
\* two such frames differ by their noise and flicker draws alone; the frames
\* of index 0 and 1 have had chroma shift and tearing all the same.
C5_NonKickDeterministic ==
    (tear_prob = 0 /\ curvature_k = 0 /\ pc = "append") =>
        /\ frame.stages = StageOrder
        /\ frame.index \notin {0, 1} => frame.fx = <<>>
        /\ frame.index \in {0, 1} =>
              HasFx(frame, "chroma_shift") /\ HasFx(frame, "tearing")

C5_Witness ==
    /\ tear_prob = 0 /\ curvature_k = 0 /\ pc = "append"
    /\ frame.index = 2 /\ u = 0 /\ frame.fx = <<>>

\* ----------------------------------------------------------------- C6
\* C6: every sequence is handed to the encoder with one duration for all its
\* frames, equal to 1000 / FPS milliseconds, so that the FRAMES frames play
\* for 4000 ms, and with loop = 0.
C6_Duration ==
    \A n \in 1..Len(outputs) :
        /\ outputs[n].duration_ms * FPS = 1000
        /\ Len(outputs[n].frames) * outputs[n].duration_ms = 4000
        /\ outputs[n].loop = 0

\* ----------------------------------------------------------------- C7
\* A frame of pixels of the given size: h rows of w pixels each.
HasSize(image, sz) ==
    /\ Len(image) = sz[2]
    /\ \A y \in 1..Len(image) : Len(image[y]) = sz[1]

\* C7: every stage returns a frame of the width and height of its argument.
\* In a run of main no stage raises, the frame being processed has the size
\* asked of render_sequence after the background and after every stage, and
\* so has every frame collected and every frame handed to the encoder.
\* On frames of pixels, every call of apply_scanlines, chroma_shift,
\* barrel_distort and tearing that returns, returns a frame of as many rows,
\* each of as many pixels, as the frame given, whatever its arguments, and
\* the working frame of tearing has that size after each band.
C7_SizePreserved ==
    /\ pc # "raised"
    /\ pc \in {"text", "bloom", "glitch", "scanlines", "vignette", "noise",
               "flicker", "barrel", "append"} => frame.size = Jobs[job].size
    /\ pc \in {"loop", "background", "text", "bloom", "glitch", "scanlines",
               "vignette", "noise", "flicker", "barrel", "append", "save"} =>
          \A k \in 1..Len(frames) : frames[k].size = Jobs[job].size
    /\ \A n \in 1..Len(outputs) :
          \A k \in 1..Len(outputs[n].frames) :
              outputs[n].frames[k].size = Jobs[n].size
    /\ spc = "returned" => HasSize(heap[outRef], SizeOf(img0))
    /\ spc = "tearing" => HasSize(heap[baseRef], SizeOf(img0))

C7_Witness ==
    /\ pc = "append" /\ job = 2 /\ frame.index = 3
    /\ frame.size = <<1920, 1080>>
    /\ HasFx(frame, "tearing") /\ HasFx(frame, "barrel_distort")
    /\ Len(frames) = 3 /\ frames[3].size = <<1920, 1080>>
    /\ Len(outputs) = 1 /\ outputs[1].frames[48].size = <<1200, 480>>

\* ----------------------------------------------------------------- C4
\* C4: barrel_distort with k = 0, chroma_shift with shift_px = 0 and tearing
\* with max_shift <= 0 each return a frame with the pixels of the frame
\* given, and tearing then draws nothing from the random generator.
C4_DisablingShortCircuits ==
    spc = "returned" =>
        /\ (call[1] = "barrel_distort" /\ call[2] = 0) => heap[outRef] = img0
        /\ (call[1] = "chroma_shift" /\ call[2] = 0) => heap[outRef] = img0
        /\ (call[1] = "tearing" /\ call[2][1] <= 0) =>
              heap[outRef] = img0 /\ draws = 0

C4_Witness ==
    /\ spc = "returned" /\ call[1] = "tearing" /\ call[2][1] = 0
    /\ Height(img0) >= 6 /\ Width(img0) >= 2
    /\ img0[1][1] # img0[1][2]
    /\ heap[outRef] = img0 /\ draws = 0

\* ----------------------------------------------------------------- C8
\* C8 as stated: apply_scanlines leaves the even rows as they are, and every
\* channel of every pixel of an odd row is exactly (1 - opacity) times the
\* channel given.
C8_Original ==
    (spc = "returned" /\ call[1] = "apply_scanlines") =>
        \A y \in 1..Height(img0) : \A x \in 1..Width(img0) : \A c \in 1..3 :
            IF (y - 1) % 2 = 0
            THEN heap[outRef][y][x][c] = img0[y][x][c]
            ELSE 100 * heap[outRef][y][x][c] = (100 - call[2]) * img0[y][x][c]

\* C8 as amended: apply_scanlines leaves the even rows as they are, and every
\* channel of every pixel of an odd row is an integer at most (1 - opacity)
\* times the channel given and at most 1 below it (the float32 product,
\* truncated to 8 bits); the frame returned has the size of the frame given.
C8_ScanlinesWithinOneLevel ==
    (spc = "returned" /\ call[1] = "apply_scanlines") =>
        /\ SizeOf(heap[outRef]) = SizeOf(img0)
        /\ \A y \in 1..Height(img0) : \A x \in 1..Width(img0) : \A c \in 1..3 :
              IF (y - 1) % 2 = 0
              THEN heap[outRef][y][x][c] = img0[y][x][c]
              ELSE /\ 100 * heap[outRef][y][x][c] <= (100 - call[2]) * img0[y][x][c]
                   /\ 100 * heap[outRef][y][x][c] >= (100 - call[2]) * img0[y][x][c] - 100

C8_Witness ==
    /\ spc = "returned" /\ call = <<"apply_scanlines", 22>>
    /\ img0 = Uniform(2, 4, 100)
    /\ heap[outRef][1][1] = <<100, 100, 100>>
    /\ heap[outRef][2][1] = <<77, 77, 77>>
    /\ heap[outRef][4][2] = <<77, 77, 77>>

\* ---------------------------------------------------------------- C10
\* The row cyclically rotated by s places to the right.
Rotated(row, s) == [x \in 1..Len(row) |-> row[((x - 1 - s) % Len(row)) + 1]]

\* C10: during and after tearing, every row of the working frame is the same
\* row of the frame given, rotated by the sum of the shifts of the bands
\* that covered it, modulo the width; a row no band covered is the row
\* given; the frame has the size of the frame given; and the frame given
\* keeps its pixels.
C10_RowsRotated ==
    (spc \in {"tearing", "returned"} /\ call[1] = "tearing" /\ call[2][1] > 0) =>
        /\ heap[1] = img0
        /\ baseRef # 1
        /\ SizeOf(heap[baseRef]) = SizeOf(img0)
        /\ \A y \in 1..Height(img0) :
              /\ heap[baseRef][y] = Rotated(img0[y], rowShift[y])
              /\ cover[y] = 0 => heap[baseRef][y] = img0[y]
        /\ spc = "returned" => outRef = baseRef

C10_Witness ==
    /\ spc = "returned" /\ call[1] = "tearing" /\ kband >= 3
    /\ \E y \in 1..Height(img0) : cover[y] = 0
    /\ \E y \in 1..Height(img0) :
          /\ cover[y] >= 2 /\ rowShift[y] # 0
          /\ heap[outRef][y] # img0[y]
          /\ heap[outRef][y] = Rotated(img0[y], rowShift[y])
    /\ \E y \in 1..Height(img0) :
          cover[y] = 1 /\ heap[outRef][y] # img0[y]

\* ----------------------------------------------------------------- C9
\* C9 as stated: for every height h >= 1 and max_shift > 0 tearing never
\* raises, and every band has 4 <= th <= 6% of h, 0 <= ty, ty + th <= h and
\* -max_shift <= shift <= max_shift, the number of bands within the range.
C9_Original ==
    (bcfg[1] >= 1 /\ bcfg[2] > 0) =>
        /\ bpc # "raised"
        /\ bpc \in {"ty", "shift", "paste"} =>
              4 <= bth /\ 100 * bth <= 6 * bcfg[1]
        /\ bpc \in {"shift", "paste"} => 0 <= bty /\ bty + bth <= bcfg[1]
        /\ bpc = "paste" => -bcfg[2] <= bshift /\ bshift <= bcfg[2]
        /\ bpc # "start" => bcfg[3][1] <= bn /\ bn <= bcfg[3][2]

\* C9 as amended: for every height h >= 6 and max_shift > 0 tearing never
\* raises; and for every height, every band drawn has
\* 4 <= th <= max(6, 6% of h rounded down), 0 <= ty, ty + th <= h and
\* -max_shift <= shift <= max_shift, the number of bands within the range.
C9_BandsInsideFrame ==
    bcfg[2] > 0 =>
        /\ bcfg[1] >= 6 => bpc # "raised"
        /\ bpc \in {"ty", "shift", "paste"} =>
              4 <= bth /\ (bth <= 6 \/ 100 * bth <= 6 * bcfg[1])
        /\ bpc \in {"shift", "paste"} => 0 <= bty /\ bty + bth <= bcfg[1]
        /\ bpc = "paste" => -bcfg[2] <= bshift /\ bshift <= bcfg[2]
        /\ bpc # "start" => bcfg[3][1] <= bn /\ bn <= bcfg[3][2]
        /\ bk <= bn

C9_Witness ==
    /\ bpc = "paste" /\ bcfg[1] = 120 /\ bcfg[2] = 16
    /\ bth = 7 /\ bty + bth = 120 /\ bshift = -16
    /\ bn = 4 /\ bk = 3

====
